---- MODULE Spec2Model ----
(***************************************************************************)
(* Monthly sales processing: the driver main() of main.py and the three    *)
(* variants it runs (process_sales, process_seven_sales,                   *)
(* process_mtb_sales).                                                     *)
(*                                                                         *)
(* Python strings are modelled as sequences of character codes, so that    *)
(* slicing, the `in` test and the ordering of strings are computed the way *)
(* Python computes them.                                                   *)
(***************************************************************************)
EXTENDS Integers, Sequences, FiniteSets, TLC

VARIABLES
    sel,          \* functions applied on their own to one input: the file
                  \* selectors (SelSpec), the aggregation (AggSpec)
    env,          \* os.environ: the credentials
    today,        \* date.today()
    args,         \* what parse_arguments() returned
    pc,           \* where main() is
    results,      \* main's results
    all_success,  \* main's all_success
    summary,      \* the summary lines main printed
    exit_code,    \* <<the argument of sys.exit>>, <<>> while running
    calls,        \* the variants main has invoked, in order
    run,          \* the locals of the variant run that is active
    net,          \* the remote calls of the latest run, in order (emptied
                  \* when main calls the next run)
    built         \* the payloads the latest run built (emptied likewise)

driver == <<env, today, args, pc, results, all_success, summary, exit_code,
            calls>>
vars == <<sel, driver, run, net, built>>

----------------------------------------------------------------------------
(* Python str operations                                                   *)

\* The value None where a str may stand: no text is equal to it.
None == <<0 - 1>>

\* s[:n]
StrPrefix(s, n) == SubSeq(s, 1, IF Len(s) < n THEN Len(s) ELSE n)

\* needle in hay
StrIn(needle, hay) ==
    \E i \in 0..(Len(hay) - Len(needle)) :
        SubSeq(hay, i + 1, i + Len(needle)) = needle

\* a <= b on str: the first differing character decides, a proper prefix is
\* smaller.
RECURSIVE StrLe(_, _)
StrLe(a, b) ==
    IF a = <<>> THEN TRUE
    ELSE IF b = <<>> THEN FALSE
    ELSE IF a[1] # b[1] THEN a[1] < b[1]
    ELSE StrLe(Tail(a), Tail(b))

\* "%02d" and "%04d" of a natural number, as character codes ("0" is 48).
Pad2(n) == <<48 + ((n \div 10) % 10), 48 + (n % 10)>>
Pad4(n) == <<48 + ((n \div 1000) % 10), 48 + ((n \div 100) % 10)>> \o Pad2(n)

\* date.strftime("%Y-%m-%d") ("-" is 45)
strftime(d) == Pad4(d.year) \o <<45>> \o Pad2(d.month) \o <<45>> \o Pad2(d.day)

\* The text of a string of decimal digits.
Digits(ds) == [i \in 1..Len(ds) |-> 48 + ds[i]]

----------------------------------------------------------------------------
(* Configuration defaults                                                  *)

\* "5480033140": default of SEVEN_NIF, first default of UBIQUUS_EXCLUDED_NIFS
SevenNifDefault == Digits(<<5, 4, 8, 0, 0, 3, 3, 1, 4, 0>>)
\* "5417196215": default of MTB_NIF, second default of UBIQUUS_EXCLUDED_NIFS
MtbNifDefault == Digits(<<5, 4, 1, 7, 1, 9, 6, 2, 1, 5>>)
\* "5480033140,5417196215" ("," is 44)
ExcludedNifsDefault == SevenNifDefault \o <<44>> \o MtbNifDefault

\* value.split(","): the pieces between the commas, empty pieces kept.
RECURSIVE SplitFrom(_, _, _)
SplitFrom(s, i, piece) ==
    IF i > Len(s) THEN <<piece>>
    ELSE IF s[i] = 44 THEN <<piece>> \o SplitFrom(s, i + 1, <<>>)
    ELSE SplitFrom(s, i + 1, Append(piece, s[i]))
SplitCommas(s) == SplitFrom(s, 1, <<>>)

----------------------------------------------------------------------------
(* File selection                                                          *)

\* Length of the date prefix of a file name.
DatePrefixLen == 10

\* start_date <= created_time <= end_date  (process_sales.py)
ExcludeInRangeStrict(created_time, start_date, end_date) ==
    /\ start_date # created_time /\ StrLe(start_date, created_time)
    /\ StrLe(created_time, end_date)
ExcludeInRange(created_time, start_date, end_date) ==
    StrLe(start_date, created_time) /\ StrLe(created_time, end_date)

\* not any(nif in filename for nif in excluded_nifs)
ExcludeKeepsLastOnly(filename, excluded_nifs) ==
    ~ (excluded_nifs # <<>>
       /\ StrIn(excluded_nifs[Len(excluded_nifs)], filename))
ExcludeKeepsFirstOnly(filename, excluded_nifs) ==
    ~ (excluded_nifs # <<>> /\ StrIn(excluded_nifs[1], filename))
ExcludeKeeps(filename, excluded_nifs) ==
    ~ \E k \in DOMAIN excluded_nifs : StrIn(excluded_nifs[k], filename)

RECURSIVE filter_files_exclude_nifs(_, _, _, _)
filter_files_exclude_nifs(files, excluded_nifs, start_date, end_date) ==
    IF files = <<>> THEN <<>>
    ELSE LET file == Head(files)
             filename == file.name
             rest == filter_files_exclude_nifs(Tail(files), excluded_nifs,
                                               start_date, end_date)
         IN  IF /\ ExcludeKeeps(filename, excluded_nifs)
                /\ ExcludeInRange(StrPrefix(filename, DatePrefixLen),
                                  start_date, end_date)
             THEN <<file>> \o rest
             ELSE rest

\* start_date <= created_time <= end_date  (process_seven_sales.py)
IncludeInRange(created_time, start_date, end_date) ==
    StrLe(start_date, created_time) /\ StrLe(created_time, end_date)

\* nif in filename
IncludeKeepsAll(filename, nif) == TRUE
IncludeKeeps(filename, nif) == StrIn(nif, filename)

RECURSIVE filter_files(_, _, _, _)
filter_files(files, nif, start_date, end_date) ==
    IF files = <<>> THEN <<>>
    ELSE LET file == Head(files)
             filename == file.name
             rest == filter_files(Tail(files), nif, start_date, end_date)
         IN  IF /\ IncludeKeeps(filename, nif)
                /\ IncludeInRange(StrPrefix(filename, DatePrefixLen),
                                  start_date, end_date)
             THEN <<file>> \o rest
             ELSE rest

----------------------------------------------------------------------------
(* Inputs of the selectors                                                 *)

\* Longest listing of the store.
MaxFiles == 2

\* "_" and ".csv"
Underscore == <<95>>
DotCsv == <<46, 99, 115, 118>>
\* "data_"
DataTag == <<100, 97, 116, 97, 95>>

\* A client that is in no default configuration: "5000000001"
OtherNif == Digits(<<5, 0, 0, 0, 0, 0, 0, 0, 0, 1>>)

Day(y, m, d) == strftime([year |-> y, month |-> m, day |-> d])

\* Dates given as start_date and end_date.
RangeDates == {Day(2024, 3, 1), Day(2024, 3, 31)}

\* File names of the store: the date prefix before, at and after the ends of
\* the range, the three client identifiers, the "_data_" naming of the
\* scenario, and a name shorter than the date prefix.
FileNames ==
    {Day(2024, 3, 1) \o Underscore \o OtherNif \o DotCsv,
     Day(2024, 3, 31) \o Underscore \o SevenNifDefault \o DotCsv,
     Day(2024, 2, 29) \o Underscore \o OtherNif \o DotCsv,
     Day(2024, 4, 1) \o Underscore \o SevenNifDefault \o DotCsv,
     Day(2024, 3, 5) \o Underscore \o DataTag \o SevenNifDefault \o DotCsv,
     Day(2024, 3, 20) \o Underscore \o DataTag \o MtbNifDefault \o DotCsv,
     Day(2024, 3, 31) \o Underscore \o OtherNif \o DotCsv,
     StrPrefix(Day(2024, 3, 1), 7)}

\* The listings: up to MaxFiles files, each with its own id.
Listings ==
    UNION {[1..n -> FileNames] : n \in 0..MaxFiles}
AsFiles(names) == [i \in DOMAIN names |-> [id |-> i, name |-> names[i]]]

\* Values of UBIQUUS_EXCLUDED_NIFS (the default, one identifier, empty).
ExcludedSettings == {ExcludedNifsDefault, MtbNifDefault, <<>>}
\* the settings the selectors are tried with: those and one naming a second
\* client last
SelExcludedSettings ==
    ExcludedSettings \cup {MtbNifDefault \o <<44>> \o OtherNif}
\* Values of SEVEN_NIF.
SevenNifSettings == {SevenNifDefault, OtherNif}

----------------------------------------------------------------------------
(* Dates                                                                   *)

date(y, m, d) == [year |-> y, month |-> m, day |-> d]

IsLeap(y) == (y % 4 = 0 /\ y % 100 # 0) \/ y % 400 = 0

\* calendar.monthrange(year, month)[1]
DaysInMonth(y, m) ==
    IF m \in {1, 3, 5, 7, 8, 10, 12} THEN 31
    ELSE IF m \in {4, 6, 9, 11} THEN 30
    ELSE IF IsLeap(y) THEN 29 ELSE 28

\* d + timedelta(days=n)
RECURSIVE AddDays(_, _)
AddDays(d, n) ==
    IF n = 0 THEN d
    ELSE IF d.day < DaysInMonth(d.year, d.month)
         THEN AddDays([d EXCEPT !.day = d.day + 1], n - 1)
    ELSE IF d.month < 12
         THEN AddDays(date(d.year, d.month + 1, 1), n - 1)
    ELSE AddDays(date(d.year + 1, 1, 1), n - 1)

\* The default of days_from_now and the due_days main passes.
DueDays == 15

get_due_date_today(now, days_from_now) == strftime(now)
get_due_date(now, days_from_now) == strftime(AddDays(now, days_from_now))

\* First and last day of the month before `now`, as text.
get_last_month_dates(now) ==
    LET last_month == IF now.month = 1 THEN 12 ELSE now.month - 1
        last_year == IF now.month = 1 THEN now.year - 1 ELSE now.year
    IN  <<strftime(date(last_year, last_month, 1)),
          strftime(date(last_year, last_month,
                        DaysInMonth(last_year, last_month)))>>

\* not value, for a str or None
FalsyUnset(value) == value = None
Falsy(value) == value = None \/ Len(value) = 0
\* not value, for a list
Empty(list) == Len(list) = 0

----------------------------------------------------------------------------
(* Tables: a DataFrame is the sequence of its rows                         *)

RECURSIVE Flatten(_)
Flatten(seqs) == IF seqs = <<>> THEN <<>> ELSE Head(seqs) \o Flatten(Tail(seqs))

\* Series.unique(): the values in order of first appearance
RECURSIVE Unique(_)
Unique(values) ==
    IF values = <<>> THEN <<>>
    ELSE LET front == Unique(SubSeq(values, 1, Len(values) - 1))
             last == values[Len(values)]
         IN  IF \E i \in DOMAIN front : front[i] = last
             THEN front ELSE Append(front, last)

\* The keys of a groupby, ascending.
RECURSIVE SortedKeys(_)
SortedKeys(keys) ==
    IF keys = {} THEN <<>>
    ELSE LET least == CHOOSE k \in keys : \A other \in keys : StrLe(k, other)
         IN  <<least>> \o SortedKeys(keys \ {least})

RECURSIVE SumReposicao(_)
SumReposicao(rows) ==
    IF rows = <<>> THEN 0 ELSE Head(rows).reposicao + SumReposicao(Tail(rows))

WithCodigo(rows, codigo) == SelectSeq(rows, LAMBDA r : r.codigo = codigo)

\* df.groupby("codigo", as_index=False).sum(), as (codigo, reposicao) rows
GroupByCodigoFirst(rows) ==
    LET keys == SortedKeys({rows[i].codigo : i \in DOMAIN rows})
    IN  [k \in DOMAIN keys |->
            [codigo |-> keys[k],
             reposicao |-> WithCodigo(rows, keys[k])[1].reposicao]]
GroupByCodigoSum(rows) ==
    LET keys == SortedKeys({rows[i].codigo : i \in DOMAIN rows})
    IN  [k \in DOMAIN keys |->
            [codigo |-> keys[k],
             reposicao |-> SumReposicao(WithCodigo(rows, keys[k]))]]

\* df[df["reposicao"] > 0]
PositiveRowsOrZero(rows) == SelectSeq(rows, LAMBDA r : r.reposicao >= 0)
PositiveRows(rows) == SelectSeq(rows, LAMBDA r : r.reposicao > 0)

\* What pd.read_csv answers: the data rows, or an exception for a file it
\* cannot parse.
Parsed(rows) == [rows |-> rows]
Malformed == [exception |-> "ParserError"]

\* What a request answers: a response with its status code, or an exception.
Response(status_code) == [status_code |-> status_code]
ConnectionError == [exception |-> "ConnectionError"]
Raised(answer) == "exception" \in DOMAIN answer

----------------------------------------------------------------------------
(* process_sales.py: the general variant                                   *)

general_get_config(excluded) ==
    [SERVICE_ACCOUNT_KEY_PATH |-> env.SERVICE_ACCOUNT_KEY_PATH,
     VENDUS_API_KEY |-> env.VENDUS_API_KEY,
     EXCLUDED_NIFS |-> SplitCommas(excluded),
     MODE |-> "normal"]

\* filename[11:-4]
ClientOfFileFromTen(filename) == SubSeq(filename, 11, Len(filename) - 4)
ClientOfFile(filename) == SubSeq(filename, 12, Len(filename) - 4)

\* The frames read from the files, each row with the "nif" of its file, put
\* together, and the rows with reposicao > 0 of that.
general_process_csv_files(frames, filenames) ==
    PositiveRows(Flatten(
        [k \in DOMAIN frames |->
            [j \in DOMAIN frames[k].rows |->
                [codigo |-> frames[k].rows[j].codigo,
                 reposicao |-> frames[k].rows[j].reposicao,
                 nif |-> ClientOfFile(filenames[k])]]]))

general_create_sales_items(df) ==
    LET nifs == Unique([i \in DOMAIN df |-> df[i].nif])
        items(nif) ==
            LET client_df ==
                    GroupByCodigoSum(SelectSeq(df, LAMBDA r : r.nif = nif))
            IN  [k \in DOMAIN client_df |->
                    [reference |-> client_df[k].codigo,
                     qty |-> client_df[k].reposicao]]
    IN  [n \in DOMAIN nifs |-> <<nifs[n], items(nifs[n])>>]

create_invoices_payloads(sales, document_type, mode, now) ==
    [k \in DOMAIN sales |->
        [client |-> [fiscal_id |-> sales[k][1]],
         type |-> document_type,
         date_due |-> get_due_date(now, DueDays),
         mode |-> mode,
         items |-> sales[k][2]]]

\* response.status_code in [200, 201]
GeneralCreatedAny2xx(status_code) == status_code \in 200..299
GeneralCreated(status_code) == status_code \in {200, 201}

\* The document type of a run.
GeneralDocumentTypeLive(dry_run) == "FT"
GeneralDocumentType(dry_run) == IF dry_run THEN "PF" ELSE "FT"

----------------------------------------------------------------------------
(* What the outside answers                                                *)

\* A second client that is in no default configuration: "5000000002"
SecondNif == Digits(<<5, 0, 0, 0, 0, 0, 0, 0, 0, 2>>)

\* The names of the files in the store during a run of main().
StoreNames ==
    {Day(2024, 3, 1) \o Underscore \o OtherNif \o DotCsv,
     Day(2024, 3, 20) \o Underscore \o SecondNif \o DotCsv,
     Day(2024, 3, 31) \o Underscore \o SevenNifDefault \o DotCsv,
     Day(2024, 3, 31) \o Underscore \o OtherNif \o DotCsv}
StoreListings == UNION {[1..n -> StoreNames] : n \in 0..MaxFiles}

\* Product codes "X" and "Y".
CodeX == <<88>>
CodeY == <<89>>
Row(codigo, reposicao) == [codigo |-> codigo, reposicao |-> reposicao]

\* What pd.read_csv answers for a downloaded file: its data rows.
Frames ==
    {Parsed(<<Row(CodeX, 3), Row(CodeX, 2), Row(CodeY, -1)>>),
     Parsed(<<Row(CodeY, 2), Row(CodeX, 1)>>),
     Parsed(<<Row(CodeX, 0), Row(CodeY, -2)>>),
     Malformed}

\* The status codes the billing API answers with.
StatusCodes == {200, 201, 204, 404, 500}
\* What a request to the billing API answers.
Answers == {Response(c) : c \in StatusCodes} \cup {ConnectionError}

\* A credential that is set: "k"
SomeKey == <<107>>
CredentialValues == {None, <<>>, SomeKey}

----------------------------------------------------------------------------
(* The locals of a run                                                     *)

RunIdle ==
    [variant |-> "", pc |-> "idle", ret |-> FALSE, raised |-> FALSE,
     config |-> <<>>, start_date |-> None, end_date |-> None,
     document_type |-> "", payment_id |-> None, due_date |-> None,
     files |-> <<>>,
     filtered_files |-> <<>>, frames |-> <<>>, df |-> <<>>, sales_items |-> <<>>,
     payloads |-> <<>>, sending |-> 0]

\* return value
Return(value) ==
    [RunIdle EXCEPT !.variant = run.variant, !.pc = "returned", !.ret = value]

Active(variant, at) == run.variant = variant /\ run.pc = at

Call(kind, what) == [kind |-> kind, what |-> what]
Post(payload, answer) ==
    [kind |-> "post", what |-> payload, answer |-> answer]

----------------------------------------------------------------------------
(* process_sales.run                                                       *)

\* return True, when no file was selected or no sales item was made
GeneralNothingToDoFails == Return(FALSE)
GeneralNothingToDo == Return(TRUE)

\* Configuration, the dates and the document type.
GeneralBegin ==
    /\ Active("general", "begin")
    /\ \E excluded \in ExcludedSettings :
        LET config == general_get_config(excluded)
            dates == IF Falsy(args.start_date) /\ Falsy(args.end_date)
                     THEN get_last_month_dates(today)
                     ELSE <<args.start_date, args.end_date>>
        IN  run' = IF Falsy(config.SERVICE_ACCOUNT_KEY_PATH) THEN Return(FALSE)
                   ELSE IF Falsy(config.VENDUS_API_KEY) THEN Return(FALSE)
                   ELSE [run EXCEPT
                           !.pc = "list", !.config = config,
                           !.start_date = dates[1], !.end_date = dates[2],
                           !.document_type = GeneralDocumentType(args.dry_run)]
    /\ UNCHANGED <<sel, driver, net, built>>

\* create_drive_service and list_files: the listing, or an exception.
GeneralList ==
    /\ Active("general", "list")
    /\ \/ \E names \in StoreListings :
            /\ run' = [run EXCEPT !.pc = "filter", !.files = AsFiles(names)]
            /\ net' = Append(net, Call("list", "general"))
       \/ /\ run' = Return(FALSE)
          /\ net' = Append(net, Call("list", "general"))
    /\ UNCHANGED <<sel, driver, built>>

\* filter_files_exclude_nifs, and the return when nothing is selected.
GeneralFilter ==
    /\ Active("general", "filter")
    /\ LET filtered_files ==
               filter_files_exclude_nifs(run.files, run.config.EXCLUDED_NIFS,
                                         run.start_date, run.end_date)
       IN  run' = IF Empty(filtered_files) THEN GeneralNothingToDo
                  ELSE [run EXCEPT !.pc = "download", !.files = <<>>,
                                   !.filtered_files = filtered_files]
    /\ UNCHANGED <<sel, driver, net, built>>

FileNamesOf(files) == [i \in DOMAIN files |-> files[i].name]

\* What the downloaded files hold, as pd.read_csv will answer for each:
\* files of one name were downloaded to one path, so they hold the same.
FramesRead(files) ==
    {frames \in [DOMAIN files -> Frames] :
        \A i, j \in DOMAIN files :
            files[i].name = files[j].name => frames[i] = frames[j]}

DownloadsFirstOnly(files, n) ==
    [i \in 1..(IF n > 1 THEN 1 ELSE n) |-> Call("download", files[i].id)]
Downloads(files, n) ==
    [i \in 1..n |-> Call("download", files[i].id)]

\* download_files: every file in turn; a download may raise.
GeneralDownload ==
    /\ Active("general", "download")
    /\ \/ /\ \E frames \in FramesRead(run.filtered_files) :
                run' = [run EXCEPT !.pc = "process", !.frames = frames]
          /\ net' = net \o Downloads(run.filtered_files, Len(run.filtered_files))
       \/ \E n \in 1..Len(run.filtered_files) :
            /\ run' = Return(FALSE)
            /\ net' = net \o Downloads(run.filtered_files, n)
    /\ UNCHANGED <<sel, driver, built>>

\* process_csv_files: pd.read_csv raises on a file it cannot parse.
GeneralProcess ==
    /\ Active("general", "process")
    /\ run' = IF \E k \in DOMAIN run.frames : run.frames[k] = Malformed
              THEN Return(FALSE)
              ELSE [run EXCEPT
                      !.pc = "aggregate",
                      !.df = general_process_csv_files(
                                 run.frames, FileNamesOf(run.filtered_files)),
                      !.filtered_files = <<>>, !.frames = <<>>]
    /\ UNCHANGED <<sel, driver, net, built>>

\* create_sales_items, and the return when there is nothing to invoice.
GeneralAggregate ==
    /\ Active("general", "aggregate")
    /\ LET sales_items == general_create_sales_items(run.df)
       IN  run' = IF Empty(sales_items) THEN GeneralNothingToDo
                  ELSE [run EXCEPT !.pc = "build", !.df = <<>>,
                                   !.sales_items = sales_items]
    /\ UNCHANGED <<sel, driver, net, built>>

GeneralBuild ==
    /\ Active("general", "build")
    /\ LET payloads == create_invoices_payloads(
                           run.sales_items, run.document_type,
                           run.config.MODE, today)
       IN  /\ run' = [run EXCEPT !.pc = "send", !.sales_items = <<>>,
                                 !.payloads = payloads, !.sending = 1]
           /\ built' = payloads
    /\ UNCHANGED <<sel, driver, net>>

\* What send_invoices does once the API has answered the payload it sent:
\* the next payload, True after the last one, False at a failure.
GeneralAfterAnswerRetry(answer) ==
    IF Raised(answer) THEN run
    ELSE IF ~ GeneralCreated(answer.status_code) THEN run
    ELSE IF run.sending = Len(run.payloads) THEN Return(TRUE)
    ELSE [run EXCEPT !.sending = run.sending + 1]
GeneralAfterAnswerGoOn(answer) ==
    IF run.sending = Len(run.payloads)
    THEN Return(~ Raised(answer) /\ GeneralCreated(answer.status_code))
    ELSE [run EXCEPT !.sending = run.sending + 1]
GeneralAfterAnswer(answer) ==
    IF Raised(answer) THEN Return(FALSE)
    ELSE IF ~ GeneralCreated(answer.status_code) THEN Return(FALSE)
    ELSE IF run.sending = Len(run.payloads) THEN Return(TRUE)
    ELSE [run EXCEPT !.sending = run.sending + 1]

\* send_invoices: one pass of its loop, for the payload whose turn it is.
GeneralSend ==
    /\ Active("general", "send")
    /\ \E answer \in Answers :
        /\ net' = Append(net, Post(run.payloads[run.sending], answer))
        /\ run' = GeneralAfterAnswer(answer)
    /\ UNCHANGED <<sel, driver, built>>

----------------------------------------------------------------------------
(* process_seven_sales.py: the gym variant                                 *)

\* "85469894": default of SEVEN_PAYMENT_ID
PaymentIdDefault == Digits(<<8, 5, 4, 6, 9, 8, 9, 4>>)
\* Values of SEVEN_PAYMENT_ID (the default, empty).
PaymentSettings == {PaymentIdDefault, <<>>}

seven_get_config(nif, payment_id) ==
    [SERVICE_ACCOUNT_KEY_PATH |-> env.SERVICE_ACCOUNT_KEY_PATH,
     VENDUS_API_KEY |-> env.MTB_VENDUS_API_KEY,
     REGISTER_ID |-> "217465187",
     PAYMENT_ID |-> payment_id,
     NIF |-> nif,
     MODE |-> "normal"]

\* The frames put together, the rows with reposicao > 0 of that, summed by
\* codigo.
seven_process_csv_files(frames) ==
    GroupByCodigoSum(PositiveRows(Flatten(
        [k \in DOMAIN frames |-> frames[k].rows])))

seven_create_sales_items(df) ==
    [k \in DOMAIN df |->
        [reference |-> df[k].codigo, qty |-> df[k].reposicao]]

create_invoice_payload(sales, document_type, register_id, mode, payment_id) ==
    IF Falsy(payment_id)
    THEN [register_id |-> register_id, type |-> document_type, mode |-> mode,
          external_reference |-> "Seven Gym", items |-> sales]
    ELSE [register_id |-> register_id, type |-> document_type, mode |-> mode,
          external_reference |-> "Seven Gym", items |-> sales,
          payments |-> <<[id |-> payment_id]>>]

\* response.status_code in [200, 201]
SevenCreated(status_code) == status_code \in {200, 201}

SevenDocumentType(dry_run) == IF dry_run THEN "PF" ELSE "FR"
SevenPaymentIdConfigured(dry_run, config) == config.PAYMENT_ID
SevenPaymentId(dry_run, config) == IF dry_run THEN None ELSE config.PAYMENT_ID

\* send_invoice
send_invoice(answer) == ~ Raised(answer) /\ SevenCreated(answer.status_code)

\* return True, when no file was selected or no sales item was made
SevenNothingToDo == Return(TRUE)

\* Configuration, the dates, the document type and the payment id.
SevenBegin ==
    /\ Active("seven", "begin")
    /\ \E nif \in SevenNifSettings, payment_id \in PaymentSettings :
        LET config == seven_get_config(nif, payment_id)
            dates == IF Falsy(args.start_date) /\ Falsy(args.end_date)
                     THEN get_last_month_dates(today)
                     ELSE <<args.start_date, args.end_date>>
        IN  run' = IF Falsy(config.SERVICE_ACCOUNT_KEY_PATH) THEN Return(FALSE)
                   ELSE IF Falsy(config.VENDUS_API_KEY) THEN Return(FALSE)
                   ELSE [run EXCEPT
                           !.pc = "list", !.config = config,
                           !.start_date = dates[1], !.end_date = dates[2],
                           !.document_type = SevenDocumentType(args.dry_run),
                           !.payment_id = SevenPaymentId(args.dry_run, config)]
    /\ UNCHANGED <<sel, driver, net, built>>

\* create_drive_service and list_files: the listing, or an exception.
SevenList ==
    /\ Active("seven", "list")
    /\ \/ \E names \in StoreListings :
            /\ run' = [run EXCEPT !.pc = "filter", !.files = AsFiles(names)]
            /\ net' = Append(net, Call("list", "seven"))
       \/ /\ run' = Return(FALSE)
          /\ net' = Append(net, Call("list", "seven"))
    /\ UNCHANGED <<sel, driver, built>>

\* filter_files, and the return when nothing is selected.
SevenFilter ==
    /\ Active("seven", "filter")
    /\ LET filtered_files == filter_files(run.files, run.config.NIF,
                                          run.start_date, run.end_date)
       IN  run' = IF Empty(filtered_files) THEN SevenNothingToDo
                  ELSE [run EXCEPT !.pc = "download", !.files = <<>>,
                                   !.filtered_files = filtered_files]
    /\ UNCHANGED <<sel, driver, net, built>>

\* download_files: every file in turn; a download may raise.
SevenDownload ==
    /\ Active("seven", "download")
    /\ \/ /\ \E frames \in FramesRead(run.filtered_files) :
                run' = [run EXCEPT !.pc = "process", !.frames = frames]
          /\ net' = net \o Downloads(run.filtered_files, Len(run.filtered_files))
       \/ \E n \in 1..Len(run.filtered_files) :
            /\ run' = Return(FALSE)
            /\ net' = net \o Downloads(run.filtered_files, n)
    /\ UNCHANGED <<sel, driver, built>>

\* process_csv_files: pd.read_csv raises on a file it cannot parse.
SevenProcess ==
    /\ Active("seven", "process")
    /\ run' = IF \E k \in DOMAIN run.frames : run.frames[k] = Malformed
              THEN Return(FALSE)
              ELSE [run EXCEPT !.pc = "aggregate",
                               !.df = seven_process_csv_files(run.frames),
                               !.filtered_files = <<>>, !.frames = <<>>]
    /\ UNCHANGED <<sel, driver, net, built>>

\* create_sales_items, and the return when there is nothing to invoice.
SevenAggregate ==
    /\ Active("seven", "aggregate")
    /\ LET sales_items == seven_create_sales_items(run.df)
       IN  run' = IF Empty(sales_items) THEN SevenNothingToDo
                  ELSE [run EXCEPT !.pc = "build", !.df = <<>>,
                                   !.sales_items = sales_items]
    /\ UNCHANGED <<sel, driver, net, built>>

SevenBuild ==
    /\ Active("seven", "build")
    /\ LET payload == create_invoice_payload(
                          run.sales_items, run.document_type,
                          run.config.REGISTER_ID, run.config.MODE,
                          run.payment_id)
       IN  /\ run' = [run EXCEPT !.pc = "send", !.sales_items = <<>>,
                                 !.payloads = <<payload>>, !.sending = 1]
           /\ built' = <<payload>>
    /\ UNCHANGED <<sel, driver, net>>

\* send_invoice, and the return of its result.
SevenSend ==
    /\ Active("seven", "send")
    /\ \E answer \in Answers :
        /\ net' = Append(net, Post(run.payloads[1], answer))
        /\ run' = Return(send_invoice(answer))
    /\ UNCHANGED <<sel, driver, built>>

----------------------------------------------------------------------------
(* process_mtb_sales.py: the negative-stock variant                        *)

\* Values of MTB_NIF.
MtbNifSettings == {MtbNifDefault}

mtb_get_config(nif) ==
    [MTB_NIF |-> nif,
     MTB_STORE_ID |-> "217464989",
     MTB_VENDUS_API_KEY |-> env.MTB_VENDUS_API_KEY,
     VENDUS_API_KEY |-> env.VENDUS_API_KEY,
     MODE |-> "normal"]

Product(reference, stock) == [reference |-> reference, stock |-> stock]

\* What "list products" answers with status 200: products with their stock
\* (the last one has no stock field).
Inventories ==
    {<<Product(CodeX, -2), Product(CodeY, 5)>>,
     <<Product(CodeX, 3), Product(CodeY, 0)>>,
     <<Product(CodeY, -1), Product(CodeX, -4)>>,
     <<[reference |-> CodeX]>>,
     <<>>}

\* product.get("stock", 0)
StockOf(product) == IF "stock" \in DOMAIN product THEN product.stock ELSE 0

\* The loop of get_products_with_negative_qty over the products answered.
RECURSIVE NegativeProducts(_)
NegativeProducts(products) ==
    IF products = <<>> THEN <<>>
    ELSE LET qty == StockOf(Head(products))
             rest == NegativeProducts(Tail(products))
         IN  IF qty < 0
             THEN <<[reference |-> Head(products).reference, qty |-> qty]>>
                  \o rest
             ELSE rest

\* get_products_with_negative_qty: every answer but a 200 gives the empty
\* list.
get_products_with_negative_qty(answer) ==
    IF Raised(answer) THEN <<>>
    ELSE IF answer.status_code = 200 THEN NegativeProducts(answer.products)
    ELSE <<>>

AbsUnchanged(n) == n
Abs(n) == IF n < 0 THEN 0 - n ELSE n

create_sales_items_from_products(products) ==
    [k \in DOMAIN products |->
        [reference |-> products[k].reference, qty |-> Abs(products[k].qty)]]

create_ft_document_payload(sales_items, due_date, document_type, nif, mode) ==
    [type |-> document_type, mode |-> mode, date_due |-> due_date,
     client |-> [fiscal_id |-> nif], items |-> sales_items]

\* response.status_code in [200, 201]
MtbCreated(status_code) == status_code \in {200, 201}

send_document(answer) == ~ Raised(answer) /\ MtbCreated(answer.status_code)

MtbDocumentType(dry_run) == IF dry_run THEN "PF" ELSE "FT"

\* return True, when no product has a negative quantity
MtbNothingToDo == Return(TRUE)

\* Configuration and the due date.
MtbBegin ==
    /\ Active("mtb", "begin")
    /\ \E nif \in MtbNifSettings :
        LET config == mtb_get_config(nif)
        IN  run' = IF Falsy(config.MTB_VENDUS_API_KEY) THEN Return(FALSE)
                   ELSE IF Falsy(config.VENDUS_API_KEY) THEN Return(FALSE)
                   ELSE [run EXCEPT !.pc = "query", !.config = config,
                           !.due_date = get_due_date(today, DueDays)]
    /\ UNCHANGED <<sel, driver, net, built>>

\* The answers of "list products".
InventoryAnswers ==
    {ConnectionError}
    \cup {[status_code |-> 200, products |-> p] : p \in Inventories}
    \cup {[status_code |-> c, products |-> <<>>] : c \in StatusCodes \ {200}}

\* get_products_with_negative_qty, and the return when it gives nothing.
MtbQuery ==
    /\ Active("mtb", "query")
    /\ \E answer \in InventoryAnswers :
        LET negative_qty_products == get_products_with_negative_qty(answer)
        IN  /\ net' = Append(net, [kind |-> "products", what |-> "mtb",
                                   answer |-> answer])
            /\ run' = IF Empty(negative_qty_products) THEN MtbNothingToDo
                      ELSE [run EXCEPT !.pc = "build",
                                       !.df = negative_qty_products]
    /\ UNCHANGED <<sel, driver, built>>

\* create_sales_items_from_products and create_ft_document_payload.
MtbBuild ==
    /\ Active("mtb", "build")
    /\ LET sales_items == create_sales_items_from_products(run.df)
           payload == create_ft_document_payload(
                          sales_items, run.due_date,
                          MtbDocumentType(args.dry_run),
                          run.config.MTB_NIF, run.config.MODE)
       IN  /\ run' = [run EXCEPT !.pc = "send", !.df = <<>>,
                                 !.payloads = <<payload>>, !.sending = 1]
           /\ built' = <<payload>>
    /\ UNCHANGED <<sel, driver, net>>

\* send_document, and the return of its result.
MtbSend ==
    /\ Active("mtb", "send")
    /\ \E answer \in Answers :
        /\ net' = Append(net, Post(run.payloads[1], answer))
        /\ run' = Return(send_document(answer))
    /\ UNCHANGED <<sel, driver, built>>

----------------------------------------------------------------------------
(* main.py                                                                 *)

\* The dates on the command line (None: not given).
GivenDates ==
    {<<None, None>>} \cup (RangeDates \X RangeDates)
    \cup {<<d, None>> : d \in RangeDates}
\* The days main() is run on.
Todays ==
    {date(2024, 4, 10), date(2024, 3, 20), date(2024, 1, 5),
     date(2023, 12, 20)}

\* parse_arguments: a start_date without end_date ends the process; no
\* dates at all stand for last month.
ArgumentsRejected(given) == ~ Falsy(given[1]) /\ Falsy(given[2])
parse_arguments(given, dry_run, now) ==
    LET dates == IF Falsy(given[1]) /\ Falsy(given[2])
                 THEN get_last_month_dates(now) ELSE given
    IN  [start_date |-> dates[1], end_date |-> dates[2], dry_run |-> dry_run]

SelIdle == [pc |-> "idle"]

\* main() has parsed its arguments and starts on its three steps: the
\* state after parse_arguments() has returned. (For a start_date without
\* end_date parse_arguments ends the process with sys.exit(1) before main
\* has done anything; that command line starts no behaviour here.)
Init ==
    /\ sel = SelIdle
    /\ env \in [{"SERVICE_ACCOUNT_KEY_PATH", "VENDUS_API_KEY",
                 "MTB_VENDUS_API_KEY"} -> CredentialValues]
    /\ today \in Todays
    /\ \E given \in GivenDates, dry_run \in BOOLEAN :
        /\ ~ ArgumentsRejected(given)
        /\ args = parse_arguments(given, dry_run, today)
    /\ pc = "step1"
    /\ results = <<>>
    /\ all_success = TRUE
    /\ summary = <<>>
    /\ exit_code = <<>>
    /\ calls = <<>>
    /\ run = RunIdle
    /\ net = <<>>
    /\ built = <<>>

\* main calls the run of a variant.
Invoke(step, variant) ==
    /\ pc = step /\ run.pc = "idle"
    /\ run' = [RunIdle EXCEPT !.variant = variant, !.pc = "begin"]
    /\ calls' = Append(calls, variant)
    /\ net' = <<>>
    /\ built' = <<>>
    /\ UNCHANGED <<sel, env, today, args, pc, results, all_success, summary,
                   exit_code>>

\* The run is over: main notes its result and goes on to the next step,
\* after an exception as after False.
NoteStopAtFailure(step, name, next) ==
    /\ pc = step /\ run.pc = "returned"
    /\ results' = Append(results, <<name, ~ run.raised /\ run.ret>>)
    /\ all_success' = (all_success /\ ~ run.raised /\ run.ret)
    /\ pc' = IF ~ run.raised /\ run.ret THEN next ELSE "summary"
    /\ run' = RunIdle
    /\ UNCHANGED <<sel, env, today, args, summary, exit_code, calls, net,
                   built>>
Note(step, name, next) ==
    /\ pc = step /\ run.pc = "returned"
    /\ results' = Append(results, <<name, ~ run.raised /\ run.ret>>)
    /\ all_success' = (all_success /\ ~ run.raised /\ run.ret)
    /\ pc' = next
    /\ run' = RunIdle
    /\ UNCHANGED <<sel, env, today, args, summary, exit_code, calls, net,
                   built>>

Step1Call == Invoke("step1", "general")
Step1Done == Note("step1", "General Sales", "step2")
Step2Call == Invoke("step2", "seven")
Step2Done == Note("step2", "Seven Sales", "step3")
Step3Call == Invoke("step3", "mtb")
Step3Done == Note("step3", "MTB Sales", "summary")

\* The summary: one line for each result.
PrintSummary ==
    /\ pc = "summary"
    /\ summary' = [i \in DOMAIN results |->
                     <<results[i][1],
                       IF results[i][2] THEN "SUCCESS" ELSE "FAILED">>]
    /\ pc' = "exit"
    /\ UNCHANGED <<sel, env, today, args, results, all_success, exit_code,
                   calls, run, net, built>>

ExitCodeAlwaysZero(success) == 0
ExitCode(success) == IF success THEN 0 ELSE 1

\* sys.exit(0) or sys.exit(1)
Exit ==
    /\ pc = "exit"
    /\ exit_code' = <<ExitCode(all_success)>>
    /\ pc' = "exited"
    /\ UNCHANGED <<sel, env, today, args, results, all_success, summary,
                   calls, run, net, built>>

Next ==
    \/ Step1Call \/ Step1Done \/ Step2Call \/ Step2Done
    \/ Step3Call \/ Step3Done \/ PrintSummary \/ Exit
    \/ GeneralBegin \/ GeneralList \/ GeneralFilter \/ GeneralDownload
    \/ GeneralProcess \/ GeneralAggregate \/ GeneralBuild \/ GeneralSend
    \/ SevenBegin \/ SevenList \/ SevenFilter \/ SevenDownload
    \/ SevenProcess \/ SevenAggregate \/ SevenBuild \/ SevenSend
    \/ MtbBegin \/ MtbQuery \/ MtbBuild \/ MtbSend

Spec == Init /\ [][Next]_vars

----------------------------------------------------------------------------
(* Properties of main() and of the three runs (Spec)                       *)

\* The variant whose run is the latest.
Latest == calls[Len(calls)]
Returned(variant) ==
    Len(calls) > 0 /\ Latest = variant /\ run.pc = "returned"

\* The documents submitted by the latest run, in order.
Posts == SelectSeq(net, LAMBDA c : c.kind = "post")
NoPosts(log) == \A i \in DOMAIN log : log[i].kind # "post"

\* The API answered the submission with 200 or 201.
Accepted(post) ==
    "status_code" \in DOMAIN post.answer
    /\ (post.answer.status_code = 200 \/ post.answer.status_code = 201)

C2_GeneralFailFast ==
    run.variant = "general" =>
        /\ Len(Posts) <= Len(built)
        /\ \A i \in DOMAIN Posts : Posts[i].what = built[i]
        /\ \A i \in DOMAIN Posts : i < Len(Posts) => Accepted(Posts[i])
        /\ (Len(Posts) > 0 /\ ~ Accepted(Posts[Len(Posts)]))
              => (run.pc = "returned" /\ ~ run.ret)

C2_Witness ==
    /\ Returned("general") /\ ~ run.ret
    /\ Len(built) = 2 /\ Len(Posts) = 1
    /\ Posts[1].answer = Response(500)

\* C3: a submission succeeded iff the API answered 200 or 201; a run that
\* submitted returns True iff every payload it built was submitted and
\* accepted, so it returns False whenever a submitted payload failed (any
\* other status code, or an exception of the request).
C3_SuccessIs200Or201 ==
    (run.pc = "returned" /\ Len(Posts) > 0) =>
        (run.ret <=> /\ Len(Posts) = Len(built)
                     /\ \A i \in DOMAIN Posts : Accepted(Posts[i]))

C3_Witness ==
    /\ Returned("seven") /\ ~ run.ret
    /\ Len(Posts) = 1 /\ Posts[1].answer = Response(204)

\* The run has returned True and has submitted nothing.
SucceedsUnsent == run'.pc = "returned" /\ run'.ret /\ NoPosts(net')

\* "list products" answered 200 and no product has a negative stock.
NoNegativeStock(answer) ==
    /\ "status_code" \in DOMAIN answer /\ answer.status_code = 200
    /\ \A k \in DOMAIN answer.products : StockOf(answer.products[k]) >= 0

\* C4: when the filter selects no file, when the aggregation gives no line
\* item, and when the inventory has no product with a negative stock, the
\* run returns True and has submitted no document.
C4_EmptyMeansSuccess ==
    [][/\ (/\ Active("general", "filter")
           /\ Len(filter_files_exclude_nifs(
                      run.files, run.config.EXCLUDED_NIFS, run.start_date,
                      run.end_date)) = 0) => SucceedsUnsent
       /\ (Active("general", "aggregate") /\ Len(run.df) = 0)
             => SucceedsUnsent
       /\ (/\ Active("seven", "filter")
           /\ Len(filter_files(run.files, run.config.NIF, run.start_date,
                               run.end_date)) = 0) => SucceedsUnsent
       /\ (Active("seven", "aggregate") /\ Len(run.df) = 0)
             => SucceedsUnsent
       /\ (/\ Active("mtb", "query") /\ Len(net') = 1
           /\ NoNegativeStock(net'[1].answer)) => SucceedsUnsent
      ]_vars

C4_Witness ==
    /\ Returned("general") /\ run.ret
    /\ net = <<Call("list", "general"), Call("download", 1)>>

\* C5: when "list products" answers another status than 200, or raises, the
\* negative-stock run returns False.
C5_InventoryFailureFailsRun ==
    (/\ Returned("mtb") /\ Len(net) > 0 /\ net[1].kind = "products"
     /\ (Raised(net[1].answer) \/ net[1].answer.status_code # 200))
        => ~ run.ret

\* C6: main invokes the three variants in the order general, gym,
\* negative-stock, whatever the earlier ones returned, and the summary holds
\* one result for each.
VariantOrder == <<"general", "seven", "mtb">>
ResultNames == <<"General Sales", "Seven Sales", "MTB Sales">>

C6_AllThreeVariantsRun ==
    /\ Len(calls) <= 3
    /\ \A i \in DOMAIN calls : calls[i] = VariantOrder[i]
    /\ Len(results) <= Len(calls) /\ Len(calls) <= Len(results) + 1
    /\ Len(results) = 0 => pc = "step1"
    /\ Len(results) = 1 => pc = "step2"
    /\ Len(results) = 2 => pc = "step3"
    /\ \A i \in DOMAIN results : results[i][1] = ResultNames[i]
    /\ pc \in {"summary", "exit", "exited"} =>
          (Len(calls) = 3 /\ Len(results) = 3)
    /\ pc \in {"exit", "exited"} =>
          (/\ Len(summary) = 3
           /\ \A i \in DOMAIN summary : summary[i][1] = ResultNames[i])

C6_Witness ==
    /\ pc = "exited" /\ calls = VariantOrder
    /\ ~ results[1][2] /\ results[2][2] /\ ~ results[3][2]

\* C7: main exits with 0 iff the three variants all reported success, with 1
\* otherwise, and only after the three have run and the summary is printed.
C7_ExitCode ==
    exit_code # <<>> =>
        /\ Len(results) = 3 /\ calls = VariantOrder
        /\ Len(summary) = 3
        /\ \A i \in 1..3 :
              summary[i] = <<ResultNames[i],
                             IF results[i][2] THEN "SUCCESS" ELSE "FAILED">>
        /\ exit_code = IF \A i \in 1..3 : results[i][2] THEN <<0>> ELSE <<1>>

C7_Witness ==
    /\ exit_code = <<1>>
    /\ results[1][2] /\ ~ results[2][2] /\ results[3][2]

----------------------------------------------------------------------------
(* SelSpec: both selectors applied to one listing                          *)

SelInit ==
    /\ \E names \in Listings, excluded \in SelExcludedSettings,
          nif \in SevenNifSettings, s \in RangeDates, e \in RangeDates :
        sel = [pc |-> "listed", files |-> AsFiles(names),
               excluded_nifs |-> SplitCommas(excluded), nif |-> nif,
               start_date |-> s, end_date |-> e,
               general |-> <<>>, seven |-> <<>>]
    /\ env = [k \in {"SERVICE_ACCOUNT_KEY_PATH", "VENDUS_API_KEY",
                     "MTB_VENDUS_API_KEY"} |-> None]
    /\ today = date(2024, 4, 10)
    /\ args = [start_date |-> None, end_date |-> None, dry_run |-> FALSE]
    /\ pc = "idle"
    /\ results = <<>>
    /\ all_success = TRUE
    /\ summary = <<>>
    /\ exit_code = <<>>
    /\ calls = <<>>
    /\ run = RunIdle
    /\ net = <<>>
    /\ built = <<>>

SelectGeneral ==
    /\ sel.pc = "listed"
    /\ sel' = [sel EXCEPT
                 !.pc = "general",
                 !.general = filter_files_exclude_nifs(
                     sel.files, sel.excluded_nifs, sel.start_date,
                     sel.end_date)]
    /\ UNCHANGED <<driver, run, net, built>>

SelectSeven ==
    /\ sel.pc = "general"
    /\ sel' = [sel EXCEPT
                 !.pc = "seven",
                 !.seven = filter_files(
                     sel.files, sel.nif, sel.start_date, sel.end_date)]
    /\ UNCHANGED <<driver, run, net, built>>

SelNext == SelectGeneral \/ SelectSeven

SelSpec == SelInit /\ [][SelNext]_vars

----------------------------------------------------------------------------
(* Properties of the selectors (SelSpec)                                   *)

\* a <= b in the lexicographic order: a is a prefix of b, or a has the
\* smaller character at the first place where they differ.
LexLe(a, b) ==
    \/ Len(a) <= Len(b) /\ SubSeq(b, 1, Len(a)) = a
    \/ \E k \in 1..Len(a) :
          /\ k <= Len(b)
          /\ SubSeq(a, 1, k - 1) = SubSeq(b, 1, k - 1)
          /\ a[k] < b[k]

\* The first 10 characters of the name (all of a shorter name).
NameDate(file) ==
    [i \in 1..(IF Len(file.name) < 10 THEN Len(file.name) ELSE 10) |->
        file.name[i]]

InClosedRange(file) ==
    LexLe(sel.start_date, NameDate(file)) /\ LexLe(NameDate(file), sel.end_date)

\* text occurs in name
Occurs(text, name) ==
    \E from \in 1..(Len(name) + 1), to \in 0..Len(name) :
        SubSeq(name, from, to) = text

HasExcluded(file) ==
    \E k \in DOMAIN sel.excluded_nifs : Occurs(sel.excluded_nifs[k], file.name)

Selected(result, file) == \E j \in DOMAIN result : result[j] = file

\* C8: both selectors take a file as in range iff
\* start_date <= name[0:10] <= end_date in the lexicographic order: nothing
\* outside the closed interval is selected, and a file the identity rule
\* lets pass is selected when its date is in the interval, the two ends
\* included.
C8_ClosedDateRange ==
    /\ sel.pc \in {"general", "seven"} =>
          \A i \in DOMAIN sel.files :
              LET file == sel.files[i]
              IN  /\ Selected(sel.general, file) => InClosedRange(file)
                  /\ (InClosedRange(file) /\ ~ HasExcluded(file))
                        => Selected(sel.general, file)
    /\ sel.pc = "seven" =>
          \A i \in DOMAIN sel.files :
              LET file == sel.files[i]
              IN  /\ Selected(sel.seven, file) => InClosedRange(file)
                  /\ (InClosedRange(file) /\ Occurs(sel.nif, file.name))
                        => Selected(sel.seven, file)

C8_Witness ==
    /\ sel.pc = "seven" /\ sel.start_date # sel.end_date
    /\ \E i \in DOMAIN sel.general :
          NameDate(sel.general[i]) = sel.start_date
    /\ \E i \in DOMAIN sel.seven : NameDate(sel.seven[i]) = sel.end_date

ScenarioNames ==
    <<Day(2024, 3, 5) \o Underscore \o DataTag \o SevenNifDefault \o DotCsv,
      Day(2024, 3, 20) \o Underscore \o DataTag \o MtbNifDefault \o DotCsv>>
Scenario ==
    /\ sel.files = AsFiles(ScenarioNames)
    /\ sel.excluded_nifs = <<MtbNifDefault>>
    /\ sel.start_date = Day(2024, 3, 1) /\ sel.end_date = Day(2024, 3, 31)

\* C9: the general selector selects a file in range iff its name contains
\* none of the excluded identifiers; what it selects are files of the
\* listing, in the order of the listing; in the scenario of the two files
\* only the first is selected.
C9_ExclusionMode ==
    sel.pc \in {"general", "seven"} =>
        /\ \A i \in DOMAIN sel.files :
              InClosedRange(sel.files[i]) =>
                  (Selected(sel.general, sel.files[i])
                      <=> ~ HasExcluded(sel.files[i]))
        /\ \A j \in DOMAIN sel.general :
              /\ sel.general[j].id \in DOMAIN sel.files
              /\ sel.general[j] = sel.files[sel.general[j].id]
              /\ j > 1 => sel.general[j - 1].id < sel.general[j].id
        /\ Scenario => sel.general = <<sel.files[1]>>

C9_Witness ==
    /\ sel.pc = "general" /\ Scenario
    /\ sel.general = <<[id |-> 1, name |-> ScenarioNames[1]]>>

\* C10: the gym selector selects a file in range iff its name contains the
\* configured identifier; a file that does not contain it is never selected.
C10_InclusionMode ==
    sel.pc = "seven" =>
        \A i \in DOMAIN sel.files :
            /\ InClosedRange(sel.files[i]) =>
                  (Selected(sel.seven, sel.files[i])
                      <=> Occurs(sel.nif, sel.files[i].name))
            /\ ~ Occurs(sel.nif, sel.files[i].name)
                  => ~ Selected(sel.seven, sel.files[i])

C10_Witness ==
    /\ sel.pc = "seven" /\ Len(sel.files) = 2 /\ Len(sel.seven) = 1
    /\ \A i \in DOMAIN sel.files : InClosedRange(sel.files[i])
    /\ sel.seven[1] = sel.files[2]

\* SEVEN_NIF is one of the excluded identifiers of the general variant.
SevenIsExcluded ==
    \E k \in DOMAIN sel.excluded_nifs : sel.excluded_nifs[k] = sel.nif

\* C21: when SEVEN_NIF is one of the excluded identifiers of the general
\* variant, no file of the listing is selected by both selectors, whatever
\* the listing and the date range: no file, and no file name, is in both
\* selections.
C21_SelectorsDisjoint ==
    (sel.pc = "seven" /\ SevenIsExcluded) =>
        /\ \A i \in DOMAIN sel.files :
              ~ (Selected(sel.general, sel.files[i])
                 /\ Selected(sel.seven, sel.files[i]))
        /\ \A i \in DOMAIN sel.general, j \in DOMAIN sel.seven :
              sel.general[i].name # sel.seven[j].name

\* The default configuration and a listing of two files in range: one is
\* selected by the general selector, the other by the gym selector.
C21_Witness ==
    /\ sel.pc = "seven"
    /\ sel.excluded_nifs = <<SevenNifDefault, MtbNifDefault>>
    /\ sel.nif = SevenNifDefault
    /\ Len(sel.files) = 2
    /\ sel.general = <<sel.files[1]>> /\ sel.seven = <<sel.files[2]>>

----------------------------------------------------------------------------
(* Properties of what the runs aggregate and build (Spec)                  *)

\* The line items of the latest run, from the rows it kept to the documents
\* it submitted: the quantities of the rows, of the sales items, of the
\* payloads built and of the payloads posted.
PayloadQuantities(payloads) ==
    UNION {{payloads[i].items[j].qty : j \in DOMAIN payloads[i].items} :
              i \in DOMAIN payloads}
PostedQuantities ==
    UNION {{Posts[i].what.items[j].qty : j \in DOMAIN Posts[i].what.items} :
              i \in DOMAIN Posts}
SalesQuantities ==
    IF run.variant = "general"
    THEN UNION {{run.sales_items[k][2][j].qty :
                    j \in DOMAIN run.sales_items[k][2]} :
                   k \in DOMAIN run.sales_items}
    ELSE {run.sales_items[k].qty : k \in DOMAIN run.sales_items}

\* C11: in the general and in the gym variant no row with quantity <= 0 is
\* kept for summing, and every line item (of the aggregation, of every
\* payload built and of every payload submitted) has a quantity > 0.
C11_OnlyPositiveQuantities ==
    (Len(calls) > 0 /\ Latest \in {"general", "seven"}) =>
        /\ \A i \in DOMAIN run.df : run.df[i].reposicao > 0
        /\ \A q \in SalesQuantities : q > 0
        /\ \A q \in PayloadQuantities(built) : q > 0
        /\ \A q \in PostedQuantities : q > 0

\* One file with the rows (X, 3), (X, 2), (Y, -1) was invoiced: the document
\* has the one item (X, 5).
C11_Witness ==
    /\ Returned("general") /\ Len(Posts) = 1
    /\ Posts[1].what.items = <<[reference |-> CodeX, qty |-> 5]>>

\* The name is 11 characters (the date and one more), then the client, then
\* 4 characters (the extension).
IsClientOf(client, name) ==
    /\ Len(name) >= 15
    /\ name = SubSeq(name, 1, 11) \o client
                 \o SubSeq(name, Len(name) - 3, Len(name))

PostsOf(log) == SelectSeq(log, LAMBDA c : c.kind = "post")

\* C13: the general variant gives every kept row the client of its file
\* (the name without its first 11 and last 4 characters), makes one sales
\* entry for each client among the kept rows and one payload for each
\* entry, so no two payloads of a run have the same client fiscal id; the
\* gym and the negative-stock variant build and submit at most one payload
\* in a run.
C13_OnePayloadPerClient ==
    [][/\ (Active("general", "process") /\ run'.pc = "aggregate") =>
             \A i \in DOMAIN run'.df :
                 \E k \in DOMAIN run.filtered_files :
                     IsClientOf(run'.df[i].nif, run.filtered_files[k].name)
       /\ (Active("general", "aggregate") /\ run'.pc = "build") =>
             /\ {run'.sales_items[k][1] : k \in DOMAIN run'.sales_items}
                   = {run.df[i].nif : i \in DOMAIN run.df}
             /\ \A k, l \in DOMAIN run'.sales_items :
                   run'.sales_items[k][1] = run'.sales_items[l][1] => k = l
       /\ Active("general", "build") =>
             /\ Len(built') = Len(run.sales_items)
             /\ \A k \in DOMAIN built' :
                   /\ built'[k].client.fiscal_id = run.sales_items[k][1]
                   /\ built'[k].items = run.sales_items[k][2]
             /\ \A k, l \in DOMAIN built' :
                   built'[k].client.fiscal_id = built'[l].client.fiscal_id
                       => k = l
       /\ (Len(calls') > 0 /\ calls'[Len(calls')] \in {"seven", "mtb"}) =>
             (Len(built') <= 1 /\ Len(PostsOf(net')) <= 1)
      ]_vars

\* Two files of one client, one with the rows of X (3 and 2), one with
\* (Y, 2) and (X, 1), were invoiced with one payload.
C13_Witness ==
    /\ Returned("general") /\ Len(built) = 1 /\ Len(Posts) = 1
    /\ built[1].client.fiscal_id = OtherNif
    /\ built[1].items = <<[reference |-> CodeX, qty |-> 6],
                          [reference |-> CodeY, qty |-> 2]>>

HasPayments(payload) == "payments" \in DOMAIN payload

\* C14: in the gym variant the payload built in a dry run has no "payments"
\* field, whatever SEVEN_PAYMENT_ID is; the payload built in production has
\* it iff SEVEN_PAYMENT_ID is not empty, and then it names that id. The
\* payload submitted is the payload built.
C14_PaymentReference ==
    /\ (run.variant = "seven" /\ run.pc = "send") =>
          /\ Len(built) = 1
          /\ HasPayments(built[1])
                <=> (~ args.dry_run /\ Len(run.config.PAYMENT_ID) > 0)
          /\ HasPayments(built[1]) =>
                built[1].payments = <<[id |-> run.config.PAYMENT_ID]>>
    /\ (Len(calls) > 0 /\ Latest = "seven") =>
          \A i \in DOMAIN Posts :
              /\ Posts[i].what = built[i]
              /\ args.dry_run => ~ HasPayments(Posts[i].what)

\* A production run with the default payment id has submitted a payload that
\* names it.
C14_Witness ==
    /\ Returned("seven") /\ ~ args.dry_run /\ Len(Posts) = 1
    /\ HasPayments(Posts[1].what)
    /\ Posts[1].what.payments = <<[id |-> PaymentIdDefault]>>

\* The number written with the digits.
RECURSIVE DecimalOf(_)
DecimalOf(digits) ==
    IF digits = <<>> THEN 0
    ELSE 10 * DecimalOf(SubSeq(digits, 1, Len(digits) - 1))
         + (digits[Len(digits)] - 48)

\* The date written as YYYY-MM-DD.
DateOfText(text) ==
    date(DecimalOf(SubSeq(text, 1, 4)), DecimalOf(SubSeq(text, 6, 7)),
         DecimalOf(SubSeq(text, 9, 10)))

\* The number of the day, counted from the first day of year 1.
DayNumber(d) ==
    LET before == d.year - 1
        leap == d.year % 4 = 0 /\ (d.year % 100 # 0 \/ d.year % 400 = 0)
        months == <<0, 31, 59, 90, 120, 151, 181, 212, 243, 273, 304, 334>>
    IN  365 * before + (before \div 4) - (before \div 100) + (before \div 400)
        + months[d.month] + (IF leap /\ d.month > 2 THEN 1 ELSE 0) + d.day

\* The payload has a due date, and it is the day n days after today.
DueIn(payload, n) ==
    /\ "date_due" \in DOMAIN payload
    /\ Len(payload.date_due) = 10
    /\ payload.date_due[5] = 45 /\ payload.date_due[8] = 45
    /\ DayNumber(DateOfText(payload.date_due)) = DayNumber(today) + n

Inventory == net[1].answer.products
Deficits ==
    {i \in DOMAIN Inventory :
        "stock" \in DOMAIN Inventory[i] /\ Inventory[i].stock < 0}
\* The place of the k-th product with a stock < 0.
DeficitAt(k) ==
    CHOOSE i \in Deficits : Cardinality({j \in Deficits : j <= i}) = k

\* C16: the payload of the negative-stock variant has one line item for each
\* product of the inventory answer with stock < 0, in the order of the
\* answer, and none for a product with stock >= 0 or without a stock; the
\* quantity of the item is the stock with its sign dropped, so it is > 0.
\* A payload is built iff some product has a stock < 0.
C16_NegativeStockItems ==
    (/\ Len(calls) > 0 /\ Latest = "mtb"
     /\ run.pc \notin {"begin", "query", "build"}
     /\ Len(net) > 0 /\ ~ Raised(net[1].answer)) =>
        /\ Len(built) = (IF Deficits = {} THEN 0 ELSE 1)
        /\ \A b \in DOMAIN built :
              /\ Len(built[b].items) = Cardinality(Deficits)
              /\ \A k \in DOMAIN built[b].items :
                    /\ built[b].items[k].reference
                          = Inventory[DeficitAt(k)].reference
                    /\ built[b].items[k].qty
                          = 0 - Inventory[DeficitAt(k)].stock
                    /\ built[b].items[k].qty > 0
        /\ \A i \in DOMAIN Posts : Posts[i].what = built[i]

\* The inventory (X, -2), (Y, 5) was invoiced with the one item (X, 2).
C16_Witness ==
    /\ Returned("mtb") /\ Len(Posts) = 1
    /\ Inventory = <<Product(CodeX, -2), Product(CodeY, 5)>>
    /\ Posts[1].what.items = <<[reference |-> CodeX, qty |-> 2]>>

\* The environment variables a variant cannot run without.
Required(variant) ==
    IF variant = "general" THEN {"SERVICE_ACCOUNT_KEY_PATH", "VENDUS_API_KEY"}
    ELSE IF variant = "seven"
         THEN {"SERVICE_ACCOUNT_KEY_PATH", "MTB_VENDUS_API_KEY"}
    ELSE {"MTB_VENDUS_API_KEY", "VENDUS_API_KEY"}
Absent(name) == env[name] = None \/ env[name] = <<>>

\* C17: when a credential the variant requires is unset or empty, its run
\* makes no remote call (no listing, no download, no inventory query, no
\* submission), builds nothing and returns False, and main notes a failure.
C17_MissingCredentialFailsFirst ==
    (Len(calls) > 0 /\ \E name \in Required(Latest) : Absent(name)) =>
        /\ net = <<>> /\ built = <<>>
        /\ run.pc \in {"begin", "returned", "idle"}
        /\ run.pc = "returned" => ~ run.ret
        /\ run.pc = "idle" =>
              (Len(results) = Len(calls) /\ ~ results[Len(results)][2])

\* The gym variant has returned False without a call: its API key is the
\* empty text, the other credentials are set.
C17_Witness ==
    /\ Returned("seven") /\ ~ run.ret /\ net = <<>>
    /\ env.MTB_VENDUS_API_KEY = <<>>
    /\ env.SERVICE_ACCOUNT_KEY_PATH = SomeKey /\ env.VENDUS_API_KEY = SomeKey

\* The members of a list at the places where pd.read_csv answers with a
\* frame, in their order.
RECURSIVE ParsedOnly(_, _)
ParsedOnly(list, frames) ==
    IF list = <<>> THEN <<>>
    ELSE LET front == ParsedOnly(SubSeq(list, 1, Len(list) - 1),
                                 SubSeq(frames, 1, Len(frames) - 1))
         IN  IF Raised(frames[Len(frames)]) THEN front
             ELSE Append(front, list[Len(list)])

\* Of several files read, one cannot be parsed and one can.
OneOfSeveralMalformed ==
    /\ Len(run.frames) > 1
    /\ \E k \in DOMAIN run.frames : Raised(run.frames[k])
    /\ \E k \in DOMAIN run.frames : ~ Raised(run.frames[k])

\* C18: when one of several selected files cannot be parsed, the run goes on
\* to aggregate, with the rows of the files that can be parsed, each once.
C18_MalformedFileIsIsolated ==
    [][/\ (Active("general", "process") /\ OneOfSeveralMalformed) =>
             /\ run'.pc = "aggregate"
             /\ run'.df = general_process_csv_files(
                              ParsedOnly(run.frames, run.frames),
                              ParsedOnly(FileNamesOf(run.filtered_files),
                                         run.frames))
       /\ (Active("seven", "process") /\ OneOfSeveralMalformed) =>
             /\ run'.pc = "aggregate"
             /\ run'.df = seven_process_csv_files(
                              ParsedOnly(run.frames, run.frames))
      ]_vars

\* Where a run of a file variant is, for each stage in order: CONFIGURED,
\* LISTING, FILTERING, DOWNLOADING, PARSING, AGGREGATING, BUILDING,
\* DISPATCHING. A run that has ended is at "returned", with True (SUCCEEDED)
\* or False (FAILED).
Stages ==
    <<"begin", "list", "filter", "download", "process", "aggregate",
      "build", "send">>
InStage(r) == \E i \in DOMAIN Stages : Stages[i] = r.pc
StageNo(r) == CHOOSE i \in DOMAIN Stages : Stages[i] = r.pc
FileRun(r) == r.variant \in {"general", "seven"}

\* The kinds of remote calls in the order a run makes them.
KindNo(call) ==
    IF call.kind = "list" THEN 1 ELSE IF call.kind = "download" THEN 2 ELSE 3

\* A step of a run of a file variant.
StageStep ==
    /\ (FileRun(run') /\ InStage(run') /\ run'.pc # run.pc) =>
          IF run'.pc = "begin" THEN run.pc = "idle"
          ELSE /\ InStage(run) /\ run.variant = run'.variant
               /\ StageNo(run') = StageNo(run) + 1
    /\ (FileRun(run) /\ InStage(run) /\ run'.pc = run.pc /\ run' # run) =>
          /\ run.pc = "send" /\ run.sending < Len(run.payloads)
          /\ run'.sending = run.sending + 1
    /\ (FileRun(run) /\ InStage(run) /\ run'.pc # run.pc) =>
          (InStage(run') \/ run'.pc = "returned")
    /\ (FileRun(run) /\ run.pc = "returned" /\ run' # run) => run' = RunIdle
    /\ (FileRun(run) /\ run.pc = "download" /\ run'.pc = "process") =>
          /\ net' = net \o [i \in DOMAIN run.filtered_files |->
                               Call("download", run.filtered_files[i].id)]
          /\ Len(run'.frames) = Len(run.filtered_files)
    /\ (FileRun(run) /\ run.pc = "process" /\ run'.pc = "aggregate") =>
          \A k \in DOMAIN run.frames : ~ Raised(run.frames[k])
    /\ (FileRun(run) /\ Len(PostsOf(net')) # Len(PostsOf(net))) =>
          /\ run.pc = "send"
          /\ net' = Append(net, Post(run.payloads[run.sending],
                                     net'[Len(net')].answer))

\* A state of a run of a file variant.
StageState ==
    (Len(calls) > 0 /\ Latest \in {"general", "seven"}) =>
        /\ \A i, j \in DOMAIN net : i < j => KindNo(net[i]) <= KindNo(net[j])
        /\ run.pc = "download" => Len(run.filtered_files) > 0
        /\ run.pc = "process" =>
              (Len(run.frames) = Len(run.filtered_files)
               /\ Len(run.frames) > 0)
        /\ run.pc = "send" => run.sending \in DOMAIN run.payloads
        /\ run.pc = "returned" => run.ret \in BOOLEAN
        /\ (run.pc = "idle" /\ Len(results) > 0) =>
              results[Len(calls)][2] \in BOOLEAN

\* C19: a run of a file variant enters its stages one after the other in
\* the order CONFIGURED, LISTING, FILTERING, DOWNLOADING, PARSING,
\* AGGREGATING, BUILDING, DISPATCHING, each from the stage before it and
\* none twice, and leaves its last stage by returning True or False once;
\* every step takes the run to the next stage, to the next payload within
\* DISPATCHING, or to its end, and the stage it is in has what its step
\* needs; a document is submitted only in DISPATCHING, after every selected
\* file was downloaded and parsed, and no file is listed or downloaded after
\* a submission.
C19_StageOrder == [] StageState /\ [][StageStep]_vars

\* A run went through every stage: it listed, downloaded two files,
\* submitted two documents and returned True.
C19_Witness ==
    /\ Returned("general") /\ run.ret
    /\ [i \in DOMAIN net |-> net[i].kind]
          = <<"list", "download", "download", "post", "post">>

\* C20: in a run of any variant the payloads submitted are the payloads
\* built, in their order, each at most once (no two payloads built are the
\* same, and none is submitted again after an answer, good or bad); when the
\* run has returned True every payload built has been submitted, once.
C20_NoRetry ==
    Len(calls) > 0 =>
        /\ Len(Posts) <= Len(built)
        /\ \A i \in DOMAIN Posts : Posts[i].what = built[i]
        /\ \A i, j \in DOMAIN built : built[i] = built[j] => i = j
        /\ \A i, j \in DOMAIN Posts :
              Posts[i].what = Posts[j].what => i = j
        /\ (run.pc = "returned" /\ run.ret) => Len(Posts) = Len(built)

\* The one submission of the negative-stock run raised, and the run has
\* returned False with that one submission made.
C20_Witness ==
    /\ Returned("mtb") /\ ~ run.ret
    /\ Len(built) = 1 /\ Len(Posts) = 1 /\ Raised(Posts[1].answer)

----------------------------------------------------------------------------
(* AggSpec: the aggregation of both file variants applied to one set of    *)
(* records, and applied again to its own result                            *)

\* The most rows the files of one input hold together.
MaxRecords == 3

\* Product code "x".
CodeLowerX == <<120>>

\* The rows a file may hold.
AggRows ==
    {Row(CodeX, 3), Row(CodeX, 2), Row(CodeX, 0), Row(CodeY, -1),
     Row(CodeY, 2), Row(CodeY, 0), Row(CodeLowerX, 2), Row(CodeLowerX, -1)}

\* Two files: of two clients, or both of one client.
AggClients == {<<OtherNif, SecondNif>>, <<OtherNif, OtherNif>>}
AggDays == <<Day(2024, 3, 1), Day(2024, 3, 20)>>

\* The rows in the order they were written, each into one of the files.
AggRecords ==
    UNION {[1..n -> (DOMAIN AggDays) \X AggRows] : n \in 0..MaxRecords}

RowsOfFile(records, f) ==
    LET mine == SelectSeq(records, LAMBDA r : r[1] = f)
    IN  [j \in DOMAIN mine |-> mine[j][2]]

\* The sales items of the general variant written back as files, one for
\* each client, and those of the gym variant as one file.
GeneralAsNames(sales) ==
    [k \in DOMAIN sales |-> AggDays[1] \o Underscore \o sales[k][1] \o DotCsv]
GeneralAsFrames(sales) ==
    [k \in DOMAIN sales |->
        Parsed([j \in DOMAIN sales[k][2] |->
                   Row(sales[k][2][j].reference, sales[k][2][j].qty)])]
SevenAsFrames(sales) ==
    <<Parsed([j \in DOMAIN sales |-> Row(sales[j].reference, sales[j].qty)])>>

AggInit ==
    /\ \E clients \in AggClients, records \in AggRecords :
        sel = [pc |-> "read", clients |-> clients,
               filenames |-> [f \in DOMAIN AggDays |->
                                 AggDays[f] \o Underscore \o clients[f]
                                 \o DotCsv],
               frames |-> [f \in DOMAIN AggDays |->
                              Parsed(RowsOfFile(records, f))],
               general |-> <<>>, seven |-> <<>>,
               general_again |-> <<>>, seven_again |-> <<>>]
    /\ env = [k \in {"SERVICE_ACCOUNT_KEY_PATH", "VENDUS_API_KEY",
                     "MTB_VENDUS_API_KEY"} |-> None]
    /\ today = date(2024, 4, 10)
    /\ args = [start_date |-> None, end_date |-> None, dry_run |-> FALSE]
    /\ pc = "idle"
    /\ results = <<>>
    /\ all_success = TRUE
    /\ summary = <<>>
    /\ exit_code = <<>>
    /\ calls = <<>>
    /\ run = RunIdle
    /\ net = <<>>
    /\ built = <<>>

\* process_sales: process_csv_files, then create_sales_items.
AggregateGeneral ==
    /\ sel.pc = "read"
    /\ sel' = [sel EXCEPT
                 !.pc = "general",
                 !.general = general_create_sales_items(
                     general_process_csv_files(sel.frames, sel.filenames))]
    /\ UNCHANGED <<driver, run, net, built>>

\* process_seven_sales: process_csv_files, then create_sales_items.
AggregateSeven ==
    /\ sel.pc = "general"
    /\ sel' = [sel EXCEPT
                 !.pc = "seven",
                 !.seven = seven_create_sales_items(
                     seven_process_csv_files(sel.frames))]
    /\ UNCHANGED <<driver, run, net, built>>

\* The same two functions of process_sales on their own result.
AggregateGeneralAgain ==
    /\ sel.pc = "seven"
    /\ sel' = [sel EXCEPT
                 !.pc = "general_again",
                 !.general_again = general_create_sales_items(
                     general_process_csv_files(
                         GeneralAsFrames(sel.general),
                         GeneralAsNames(sel.general)))]
    /\ UNCHANGED <<driver, run, net, built>>

\* The same two functions of process_seven_sales on their own result.
AggregateSevenAgain ==
    /\ sel.pc = "general_again"
    /\ sel' = [sel EXCEPT
                 !.pc = "done",
                 !.seven_again = seven_create_sales_items(
                     seven_process_csv_files(SevenAsFrames(sel.seven)))]
    /\ UNCHANGED <<driver, run, net, built>>

AggNext ==
    \/ AggregateGeneral \/ AggregateSeven
    \/ AggregateGeneralAgain \/ AggregateSevenAgain

AggSpec == AggInit /\ [][AggNext]_vars

----------------------------------------------------------------------------
(* Properties of the aggregation (AggSpec)                                 *)

\* The places of the records with quantity > 0: file f, row j.
PositivePlaces ==
    {p \in UNION {{<<f, j>> : j \in DOMAIN sel.frames[f].rows} :
                     f \in DOMAIN sel.frames} :
        sel.frames[p[1]].rows[p[2]].reposicao > 0}
ClientAt(p) == sel.clients[p[1]]
CodeAt(p) == sel.frames[p[1]].rows[p[2]].codigo

RECURSIVE TotalAt(_)
TotalAt(places) ==
    IF places = {} THEN 0
    ELSE LET p == CHOOSE q \in places : TRUE
         IN  sel.frames[p[1]].rows[p[2]].reposicao + TotalAt(places \ {p})

\* The line items of an output of the general variant, as (client, k, j).
GeneralLines(sales) ==
    UNION {{<<sales[k][1], k, j>> : j \in DOMAIN sales[k][2]} :
              k \in DOMAIN sales}

\* C12: the aggregated output has exactly one line item for each (client,
\* product code) pair among the records with quantity > 0, the codes compared
\* as they are, and its quantity is the sum of the quantities of those
\* records; the rows (X, 3), (X, 2), (Y, -1) of one client give the one
\* item (X, 5); aggregating the output again gives the same output. The gym
\* variant, which has one client, has one line item for each product code.
C12_OneItemPerClientAndCode ==
    /\ sel.pc \in {"general", "seven", "general_again", "done"} =>
          LET lines == GeneralLines(sel.general)
              item(l) == sel.general[l[2]][2][l[3]]
          IN  /\ {<<l[1], item(l).reference>> : l \in lines}
                     = {<<ClientAt(p), CodeAt(p)>> : p \in PositivePlaces}
              /\ \A l, m \in lines :
                    (l[1] = m[1] /\ item(l).reference = item(m).reference)
                        => l = m
              /\ \A l \in lines :
                    item(l).qty =
                        TotalAt({p \in PositivePlaces :
                                    /\ ClientAt(p) = l[1]
                                    /\ CodeAt(p) = item(l).reference})
              /\ (/\ sel.clients[1] # sel.clients[2]
                  /\ sel.frames[1].rows
                        = <<Row(CodeX, 3), Row(CodeX, 2), Row(CodeY, -1)>>
                  /\ sel.frames[2].rows = <<>>)
                    => sel.general
                         = <<<<sel.clients[1],
                               <<[reference |-> CodeX, qty |-> 5]>>>>>>
    /\ sel.pc \in {"seven", "general_again", "done"} =>
          /\ {sel.seven[j].reference : j \in DOMAIN sel.seven}
                = {CodeAt(p) : p \in PositivePlaces}
          /\ \A i, j \in DOMAIN sel.seven :
                sel.seven[i].reference = sel.seven[j].reference => i = j
          /\ \A j \in DOMAIN sel.seven :
                sel.seven[j].qty =
                    TotalAt({p \in PositivePlaces :
                                CodeAt(p) = sel.seven[j].reference})
    /\ sel.pc \in {"general_again", "done"} =>
          sel.general_again = sel.general
    /\ sel.pc = "done" => sel.seven_again = sel.seven

\* Two files of one client: (X, 3) and (Y, -1) in the first, (X, 2) in the
\* second; they give the one item (X, 5), and aggregating again has changed
\* nothing.
C12_Witness ==
    /\ sel.pc = "done" /\ sel.clients = <<OtherNif, OtherNif>>
    /\ sel.frames[1].rows = <<Row(CodeX, 3), Row(CodeY, -1)>>
    /\ sel.frames[2].rows = <<Row(CodeX, 2)>>
    /\ sel.general = <<<<OtherNif, <<[reference |-> CodeX, qty |-> 5]>>>>>>
    /\ sel.seven = <<[reference |-> CodeX, qty |-> 5]>>
    /\ sel.general_again = sel.general
    /\ sel.seven_again = sel.seven

====
